---- MODULE Spec2Model ----
(***************************************************************************)
(* Model of rss_parser_rust: the bounded-concurrency fetch -> parse ->     *)
(* aggregate pipeline (fetcher.rs, parser.rs, types.rs, lib.rs), the text  *)
(* cleaner (cleaner.rs) and the og:image extractor (html_extract.rs).      *)
(*                                                                         *)
(* Text is a sequence of characters.  A character is a one-element string, *)
(* except that the name of a character entity ("amp", "lt", "gt", "nbsp")  *)
(* is kept as one token standing for its letters, and the three no-break   *)
(* space variants are written by their code points.                        *)
(***************************************************************************)
EXTENDS Integers, Sequences, FiniteSets, TLC

VARIABLES
    \* parse_feeds_parallel / parse_sources / fetch_all
    requested,      \* lib.rs: the `sources` argument, as given by the caller
    max_concurrent, \* the limit handed to parse_sources (after lib.rs:25)
    sources,        \* Vec<SourceRequest> after ensure_source_requests
    pc,             \* position of the caller: "submit", "join", "parse", "done"
    cursor,         \* index of the next (source, url) pair of the submit loop
    permits,        \* free permits of the semaphore
    tasks,          \* spawned tasks, by pair index: state and outcome
    notified,       \* JoinSet: finished tasks not yet returned by join_next
    results,        \* fetch_all's `results` vector
    result,         \* the ParseResult
    \* clean_html applied once and twice
    input, once, twice, cpc,
    \* extract_articles on one feed's entries
    entries, parsed_articles, epc,
    \* extract_og_image_from_html
    document, extraction, opc

vars == <<requested, max_concurrent, sources, pc, cursor, permits, tasks,
          notified, results, result, input, once, twice, cpc,
          entries, parsed_articles, epc, document, extraction, opc>>

pipeVars == <<requested, max_concurrent, sources, pc, cursor, permits, tasks,
              notified, results, result>>
cleanVars == <<input, once, twice, cpc>>
entryVars == <<entries, parsed_articles, epc>>
ogVars == <<document, extraction, opc>>

\* Option<T>: None is the empty sequence, Some(x) the one-element sequence.
None == <<>>
Some(x) == <<x>>
Unwrap(o) == o[1]

\* ------------------------------------------------------------------ bounds
MaxUrls == 2
MaxLen == 5
MaxEntries == 2
MaxElems == 3

\* ---------------------------------------------------------------- cleaner.rs

\* Named character references html_escape decodes, and the character of each.
EntityChar ==
    [e \in {"amp", "lt", "gt", "nbsp"} |->
        CASE e = "amp" -> "&"
          [] e = "lt" -> "<"
          [] e = "gt" -> ">"
          [] e = "nbsp" -> "U+00A0"]

\* NBSP_RE: [\u{00A0}\u{2009}\u{202F}]
NbspChars == {"U+00A0", "U+2009", "U+202F"}

\* \s of WHITESPACE_RE and of str::trim (Unicode White_Space)
WhitespaceChars == {" "} \cup NbspChars

\* html_escape::decode_html_entities: one left-to-right pass; "&name;" with a
\* known name becomes its character, anything else is copied; the output is
\* not scanned again.
RECURSIVE decode_html_entities(_)
decode_html_entities(s) ==
    IF s = <<>> THEN <<>>
    ELSE IF /\ Len(s) >= 3
            /\ s[1] = "&"
            /\ s[2] \in DOMAIN EntityChar
            /\ s[3] = ";"
         THEN <<EntityChar[s[2]]>> \o decode_html_entities(SubSeq(s, 4, Len(s)))
         ELSE <<Head(s)>> \o decode_html_entities(Tail(s))

\* Index of the first ">" of s at position >= from, 0 when there is none.
RECURSIVE FirstGt(_, _)
FirstGt(s, from) ==
    IF from > Len(s) THEN 0
    ELSE IF s[from] = ">" THEN from
    ELSE FirstGt(s, from + 1)

\* HTML_TAG_RE.replace_all(.., " ") with HTML_TAG_RE = <[^>]+> : leftmost
\* matches, each from a "<" that is not directly followed by ">" to the next
\* ">", replaced by one space.
RECURSIVE replace_tags(_)
replace_tags(s) ==
    IF s = <<>> THEN <<>>
    ELSE IF /\ Head(s) = "<"
            /\ Len(s) >= 3
            /\ s[2] # ">"
            /\ FirstGt(s, 3) # 0
         THEN <<" ">> \o replace_tags(SubSeq(s, FirstGt(s, 3) + 1, Len(s)))
         ELSE <<Head(s)>> \o replace_tags(Tail(s))

\* NBSP_RE.replace_all(.., " ")
replace_nbsp(s) == [i \in 1..Len(s) |-> IF s[i] \in NbspChars THEN " " ELSE s[i]]

\* WHITESPACE_RE.replace_all(.., " ") with WHITESPACE_RE = \s+
RECURSIVE replace_whitespace(_)
replace_whitespace(s) ==
    IF s = <<>> THEN <<>>
    ELSE IF Head(s) \in WhitespaceChars
         THEN IF Len(s) >= 2 /\ s[2] \in WhitespaceChars
              THEN replace_whitespace(Tail(s))
              ELSE <<" ">> \o replace_whitespace(Tail(s))
         ELSE <<Head(s)>> \o replace_whitespace(Tail(s))

RECURSIVE trim_start(_)
trim_start(s) ==
    IF s # <<>> /\ Head(s) \in WhitespaceChars THEN trim_start(Tail(s)) ELSE s

RECURSIVE trim_end(_)
trim_end(s) ==
    IF s # <<>> /\ s[Len(s)] \in WhitespaceChars
    THEN trim_end(SubSeq(s, 1, Len(s) - 1))
    ELSE s

\* str::trim
trim(s) == trim_end(trim_start(s))

\* A slip in the order of the steps: tags stripped before entities are decoded.
clean_html_strip_first(text) ==
    IF text = <<>> THEN <<>>
    ELSE trim(replace_whitespace(replace_nbsp(decode_html_entities(replace_tags(text)))))

\* cleaner.rs clean_html
clean_html(text) ==
    IF text = <<>> THEN <<>>
    ELSE trim(replace_whitespace(replace_nbsp(replace_tags(decode_html_entities(text)))))

\* Whether s still holds a character reference a further decode would replace.
HasEntity(s) ==
    \E i \in 1..(Len(s) - 2) :
        s[i] = "&" /\ s[i + 1] \in DOMAIN EntityChar /\ s[i + 2] = ";"

\* Characters of the texts the cleaner is run on.
InputChars == {"&", ";", "amp", "lt", "<", ">", " ", "x"}

Texts(n) == UNION {[1..k -> InputChars] : k \in 0..n}

\* ----------------------------------------------------------------- parser.rs

\* A feed_rs Entry, as far as extract_articles reads it:
\*   title   : Option of the title's text
\*   links   : the links, each [href, title] with title an Option of a text
\*   summary : Option of the summary's text
\*   content : Option of [body |-> Option of a text]
\* published, image and category of an article are computed from the entry
\* alone and are never a reason to keep or drop it; they are left out.
Link(href, title) == [href |-> href, title |-> title]
Entry(title, links, summary, content) ==
    [title |-> title, links |-> links, summary |-> summary, content |-> content]

\* parser.rs pick_description
pick_description(entry) ==
    IF entry.summary # None THEN Some(Unwrap(entry.summary))
    ELSE IF entry.content # None /\ Unwrap(entry.content).body # None
         THEN Some(Unwrap(Unwrap(entry.content).body))
    ELSE IF entry.links # <<>>
         THEN Some(IF entry.links[1].title = None THEN <<>>
                   ELSE Unwrap(entry.links[1].title))
         ELSE None

\* The closure of extract_articles' filter_map: None when the entry is
\* dropped (the two `?`), else the ParsedArticle.
parse_entry(entry, source_name) ==
    IF entry.title = None THEN None
    ELSE IF entry.links = <<>> THEN None
    ELSE Some([title |-> clean_html(Unwrap(entry.title)),
               link |-> entry.links[1].href,
               description |->
                   clean_html(IF pick_description(entry) = None THEN <<>>
                              ELSE Unwrap(pick_description(entry))),
               source |-> source_name])

\* parser.rs extract_articles: filter_map over the entries, order kept.
RECURSIVE extract_articles(_, _)
extract_articles(es, source_name) ==
    IF es = <<>> THEN <<>>
    ELSE parse_entry(Head(es), source_name) \o extract_articles(Tail(es), source_name)

\* feed_rs::parser::parse on a response body.  A body is modelled by what the
\* parser makes of it: whether it decodes, and the entries when it does.
parse(xml) ==
    IF xml.wellformed THEN [ok |-> TRUE, entries |-> xml.entries]
    ELSE [ok |-> FALSE, err |-> "malformed feed"]

\* types.rs FetchResult::Success(RawFeed) and FetchResult::Error(FetchError)
Success(source_name, url, xml) ==
    [kind |-> "Success", source_name |-> source_name, url |-> url,
     xml |-> Some(xml), message |-> None]
Error(source_name, url, message) ==
    [kind |-> "Error", source_name |-> source_name, url |-> url,
     xml |-> None, message |-> Some(message)]

SubFeedStat(url, status, article_count, error_message) ==
    [url |-> url, status |-> status, article_count |-> article_count,
     error_message |-> error_message]

\* errors.join("; ")
RECURSIVE join(_)
join(errors) ==
    IF Len(errors) = 1 THEN errors[1]
    ELSE errors[1] \o "; " \o join(Tail(errors))

\* The accumulators of parse_source_group before its loop.
GroupStart ==
    [articles |-> <<>>, sub_stats |-> <<>>, top_status |-> "success", errors |-> <<>>]

\* A slip in the decode-error arm: the source status is not escalated.
group_step_quiet_decode_error(acc, source_name, r) ==
    IF r.kind = "Success"
    THEN IF parse(Unwrap(r.xml)).ok
         THEN LET parsed == extract_articles(parse(Unwrap(r.xml)).entries, source_name)
              IN  [acc EXCEPT
                     !.articles = @ \o parsed,
                     !.sub_stats = Append(@, SubFeedStat(r.url, "success", Len(parsed), None))]
         ELSE LET msg == "Parse error: " \o parse(Unwrap(r.xml)).err
              IN  [acc EXCEPT
                     !.errors = Append(@, msg),
                     !.sub_stats = Append(@, SubFeedStat(r.url, "error", 0, Some(msg)))]
    ELSE [acc EXCEPT
            !.top_status = "warning",
            !.errors = Append(@, Unwrap(r.message)),
            !.sub_stats = Append(@, SubFeedStat(r.url, "error", 0, r.message))]

\* A slip in the fetch-error arm: the articles gathered so far are dropped.
group_step_error_clears(acc, source_name, r) ==
    IF r.kind = "Success"
    THEN IF parse(Unwrap(r.xml)).ok
         THEN LET parsed == extract_articles(parse(Unwrap(r.xml)).entries, source_name)
              IN  [acc EXCEPT
                     !.articles = @ \o parsed,
                     !.sub_stats = Append(@, SubFeedStat(r.url, "success", Len(parsed), None))]
         ELSE LET msg == "Parse error: " \o parse(Unwrap(r.xml)).err
              IN  [acc EXCEPT
                     !.top_status = "warning",
                     !.errors = Append(@, msg),
                     !.sub_stats = Append(@, SubFeedStat(r.url, "error", 0, Some(msg)))]
    ELSE [acc EXCEPT
            !.articles = <<>>,
            !.top_status = "warning",
            !.errors = Append(@, Unwrap(r.message)),
            !.sub_stats = Append(@, SubFeedStat(r.url, "error", 0, r.message))]

\* One turn of the loop of parse_source_group over a FetchResult.
group_step(acc, source_name, r) ==
    IF r.kind = "Success"
    THEN IF parse(Unwrap(r.xml)).ok
         THEN LET parsed == extract_articles(parse(Unwrap(r.xml)).entries, source_name)
              IN  [acc EXCEPT
                     !.articles = @ \o parsed,
                     !.sub_stats = Append(@, SubFeedStat(r.url, "success", Len(parsed), None))]
         ELSE LET msg == "Parse error: " \o parse(Unwrap(r.xml)).err
              IN  [acc EXCEPT
                     !.top_status = "warning",
                     !.errors = Append(@, msg),
                     !.sub_stats = Append(@, SubFeedStat(r.url, "error", 0, Some(msg)))]
    ELSE [acc EXCEPT
            !.top_status = "warning",
            !.errors = Append(@, Unwrap(r.message)),
            !.sub_stats = Append(@, SubFeedStat(r.url, "error", 0, r.message))]

RECURSIVE group_loop(_, _, _)
group_loop(acc, source_name, rs) ==
    IF rs = <<>> THEN acc
    ELSE group_loop(group_step(acc, source_name, Head(rs)), source_name, Tail(rs))

\* parser.rs parse_source_group: (articles, stat)
parse_source_group(source_name, rs) ==
    LET acc == group_loop(GroupStart, source_name, rs)
    IN  [articles |-> acc.articles,
         stat |-> [name |-> source_name,
                   status |-> acc.top_status,
                   article_count |-> Len(acc.articles),
                   error_message |->
                       IF acc.errors = <<>> THEN None ELSE Some(join(acc.errors)),
                   sub_feeds |->
                       IF acc.sub_stats = <<>> THEN None ELSE Some(acc.sub_stats)]]

\* A slip in the injected stat: the status of a failed sub-feed is used.
NoFetchAttemptsError(name) ==
    [name |-> name, status |-> "error", article_count |-> 0,
     error_message |-> Some("No fetch attempts"), sub_feeds |-> None]

\* The stat parse_results injects for a source that has none.
NoFetchAttempts(name) ==
    [name |-> name, status |-> "warning", article_count |-> 0,
     error_message |-> Some("No fetch attempts"), sub_feeds |-> None]

\* grouped[name]: the fetch results of one source name, in the order of
\* fetch_results.
RECURSIVE Group(_, _)
Group(fetch_results, name) ==
    IF fetch_results = <<>> THEN <<>>
    ELSE (IF Head(fetch_results).source_name = name THEN <<Head(fetch_results)>> ELSE <<>>)
         \o Group(Tail(fetch_results), name)

GroupNames(fetch_results) ==
    {fetch_results[i].source_name : i \in 1..Len(fetch_results)}

\* The merge loop of parse_results over articles_stats, taken in `order` (the
\* order in which the hash map of groups is iterated).
RECURSIVE MergeArticles(_, _)
MergeArticles(fetch_results, order) ==
    IF order = <<>> THEN <<>>
    ELSE parse_source_group(Head(order), Group(fetch_results, Head(order))).articles
         \o MergeArticles(fetch_results, Tail(order))

\* parser.rs parse_results: the articles and the stats map, with the stats
\* of the original sources that have none injected.
parse_results(fetch_results, original_sources, order) ==
    LET named == {original_sources[i].name : i \in 1..Len(original_sources)}
    IN  [articles |-> MergeArticles(fetch_results, order),
         source_stats |->
             [n \in GroupNames(fetch_results) \cup named |->
                 IF n \in GroupNames(fetch_results)
                 THEN parse_source_group(n, Group(fetch_results, n)).stat
                 ELSE NoFetchAttempts(n)]]

\* A slip in the count: the distinct articles are counted.
RustMetricsDistinct(articles) ==
    [articles_parsed |-> Cardinality({articles[i] : i \in 1..Len(articles)})]

\* parser.rs parse_sources: the metrics of the ParseResult (the durations
\* are wall-clock readings and are left out).
RustMetrics(articles) == [articles_parsed |-> Len(articles)]

\* ------------------------------------------------------------------ types.rs

SourceRequest(name, urls) == [name |-> name, urls |-> urls]

RECURSIVE FilterBlank(_)
FilterBlank(urls) ==
    IF urls = <<>> THEN <<>>
    ELSE (IF trim(Head(urls)) # <<>> THEN <<Head(urls)>> ELSE <<>>)
         \o FilterBlank(Tail(urls))

\* types.rs ensure_source_requests: blank urls are filtered out of each
\* request, then the requests left without a url are filtered out.
RECURSIVE ensure_source_requests(_)
ensure_source_requests(raw) ==
    IF raw = <<>> THEN <<>>
    ELSE (IF FilterBlank(Head(raw).urls) # <<>>
          THEN <<SourceRequest(Head(raw).name, FilterBlank(Head(raw).urls))>>
          ELSE <<>>)
         \o ensure_source_requests(Tail(raw))

\* ------------------------------------------------------------------ lib.rs

DefaultMaxConcurrent == 32

Max(a, b) == IF a >= b THEN a ELSE b

\* lib.rs:25  max_concurrent.unwrap_or(32).max(1)
Limit(arg) == Max(IF arg = None THEN DefaultMaxConcurrent ELSE Unwrap(arg), 1)

\* ---------------------------------------------------------------- fetcher.rs

\* The (source, url) pairs in the order of the two nested loops of fetch_all.
RECURSIVE Pairs(_)
Pairs(srcs) ==
    IF srcs = <<>> THEN <<>>
    ELSE [i \in 1..Len(Head(srcs).urls) |->
             [source_name |-> Head(srcs).name, url |-> Head(srcs).urls[i]]]
         \o Pairs(Tail(srcs))

\* ------------------------------------------------------------- html_extract.rs

\* An element of the parsed document, in document order: its tag and the
\* attributes the selectors and the extractor read, each an Option.
MetaEl(property, name, content) ==
    [tag |-> "meta", property |-> property, name |-> name, rel |-> None,
     content |-> content, href |-> None]
LinkEl(rel, href) ==
    [tag |-> "link", property |-> None, name |-> None, rel |-> rel,
     content |-> None, href |-> href]

\* The three selectors of extract_og_image_from_html: tag[attr='value'].
OgSelector == [tag |-> "meta", attr |-> "property", value |-> "og:image"]
TwitterSelector == [tag |-> "meta", attr |-> "name", value |-> "twitter:image"]
ImageSrcSelector == [tag |-> "link", attr |-> "rel", value |-> "image_src"]

\* document.select(&sel): whether the element matches the selector
Matches(el, sel) == el.tag = sel.tag /\ el[sel.attr] = Some(sel.value)

\* html_extract.rs meta_contents: the content attributes of the matching
\* elements, in document order, blank ones left out (values are not trimmed).
RECURSIVE meta_contents(_, _)
meta_contents(doc, sel) ==
    IF doc = <<>> THEN <<>>
    ELSE (IF /\ Matches(Head(doc), sel)
             /\ Head(doc).content # None
             /\ trim(Unwrap(Head(doc).content)) # <<>>
          THEN <<Unwrap(Head(doc).content)>>
          ELSE <<>>)
         \o meta_contents(Tail(doc), sel)

\* The loop over link[rel='image_src']: trimmed href, blank ones skipped.
RECURSIVE image_src_links(_)
image_src_links(doc) ==
    IF doc = <<>> THEN <<>>
    ELSE (IF /\ Matches(Head(doc), ImageSrcSelector)
             /\ Head(doc).href # None
             /\ trim(Unwrap(Head(doc).href)) # <<>>
          THEN <<trim(Unwrap(Head(doc).href))>>
          ELSE <<>>)
         \o image_src_links(Tail(doc))

\* candidates.push(ImageCandidate { url, source, priority }) for each url
Candidates(urls, source, priority) ==
    [i \in 1..Len(urls) |-> [url |-> urls[i], source |-> source, priority |-> priority]]

OgImageExtraction(candidates) ==
    [image_url |-> IF candidates = <<>> THEN None ELSE Some(candidates[1].url),
     candidates |-> candidates]

\* A slip in the order of the pushes: twitter:image before og:image.
extract_og_image_twitter_first(doc) ==
    OgImageExtraction(
        Candidates(meta_contents(doc, TwitterSelector), "twitter:image", 2)
        \o Candidates(meta_contents(doc, OgSelector), "og:image", 1)
        \o Candidates(image_src_links(doc), "link:image_src", 3))

\* html_extract.rs extract_og_image_from_html
extract_og_image_from_html(doc) ==
    OgImageExtraction(
        Candidates(meta_contents(doc, OgSelector), "og:image", 1)
        \o Candidates(meta_contents(doc, TwitterSelector), "twitter:image", 2)
        \o Candidates(image_src_links(doc), "link:image_src", 3))

\* Values of the variables of the parts a specification does not run.
PipeIdle ==
    /\ requested = <<>> /\ max_concurrent = 1 /\ sources = <<>> /\ pc = "idle"
    /\ cursor = 1 /\ permits = 0 /\ tasks = <<>> /\ notified = <<>>
    /\ results = <<>> /\ result = None
CleanIdle == input = <<>> /\ once = <<>> /\ twice = <<>> /\ cpc = "idle"
EntryIdle == entries = <<>> /\ parsed_articles = <<>> /\ epc = "idle"
OgIdle == document = <<>> /\ extraction = None /\ opc = "idle"

\* ------------------------------------------------- parse_feeds_parallel
SourceNames == {"A", "B"}

\* Urls of the requests: a blank one and two addresses.
UrlTexts == {<<" ">>, <<"u">>, <<"v">>}

RawSources ==
    {SourceRequest(n, us) :
        n \in SourceNames, us \in UNION {[1..k -> UrlTexts] : k \in 0..MaxUrls}}

RECURSIVE UrlCount(_)
UrlCount(raw) == IF raw = <<>> THEN 0 ELSE Len(Head(raw).urls) + UrlCount(Tail(raw))

\* The `sources` arguments: at most as many requests as there are names (two
\* requests may bear the same name), MaxUrls urls in all.
Requests ==
    {raw \in UNION {[1..k -> RawSources] : k \in 0..Cardinality(SourceNames)} :
        UrlCount(raw) <= MaxUrls}

\* The `max_concurrent` arguments: absent (the default), and the limits below
\* the number of urls, which are those that can make a request wait.
ConcurrencyArgs == {None} \cup {Some(n) : n \in 0..(MaxUrls - 1)}

GoodEntry == Entry(Some(<<"x">>), <<Link(<<"h">>, None)>>, Some(<<"s">>), None)

\* Response bodies: one that is not a feed, and a feed of three entries with
\* title and link, among them one entry without a link and one without a
\* title.
BadXml == [wellformed |-> FALSE, entries |-> <<>>]
Feed3 ==
    [wellformed |-> TRUE,
     entries |-> << GoodEntry,
                    Entry(Some(<<"x">>), <<>>, None, None),
                    GoodEntry,
                    Entry(None, <<Link(<<"h">>, None)>>, None, None),
                    GoodEntry >>]
Bodies == {BadXml, Feed3}

Init ==
    /\ requested \in Requests
    /\ \E arg \in ConcurrencyArgs : max_concurrent = Limit(arg)
    /\ sources = ensure_source_requests(requested)
    /\ permits = Max(max_concurrent, 1)
    /\ pc = IF Pairs(sources) = <<>> THEN "join" ELSE "submit"
    /\ cursor = 1
    /\ tasks = <<>> /\ notified = <<>> /\ results = <<>> /\ result = None
    /\ CleanIdle /\ EntryIdle /\ OgIdle

\* A slip in acquire_permit: it returns without a free permit.
acquire_permit_unchecked == TRUE

\* fetcher.rs acquire_permit: returns once the semaphore has a free permit.
acquire_permit == permits > 0

\* A design in which the task, not the caller, waits for the permit.
SpawnThenAcquire ==
    /\ pc = "submit"
    /\ permits' = permits
    /\ tasks' = Append(tasks, [source_name |-> Pairs(sources)[cursor].source_name,
                               url |-> Pairs(sources)[cursor].url,
                               state |-> "sending", outcome |-> None])
    /\ cursor' = cursor + 1
    /\ pc' = IF cursor + 1 > Len(Pairs(sources)) THEN "join" ELSE "submit"
    /\ UNCHANGED <<requested, max_concurrent, sources, notified, results, result,
                   cleanVars, entryVars, ogVars>>

\* fetch_all, one turn of the nested loops: the caller acquires a permit,
\* then spawns the task, which owns the permit; after the last pair the
\* caller goes on to the join loop.
Spawn ==
    /\ pc = "submit"
    /\ acquire_permit
    /\ permits' = permits - 1
    /\ tasks' = Append(tasks, [source_name |-> Pairs(sources)[cursor].source_name,
                               url |-> Pairs(sources)[cursor].url,
                               state |-> "sending", outcome |-> None])
    /\ cursor' = cursor + 1
    /\ pc' = IF cursor + 1 > Len(Pairs(sources)) THEN "join" ELSE "submit"
    /\ UNCHANGED <<requested, max_concurrent, sources, notified, results, result,
                   cleanVars, entryVars, ogVars>>

\* A slip: a task that ends in an error keeps its permit.
FinishLeakOnError(t, outcome) ==
    /\ tasks' = [tasks EXCEPT ![t].state = "finished", ![t].outcome = Some(outcome)]
    /\ permits' = IF outcome.kind = "Error" THEN permits ELSE permits + 1
    /\ notified' = Append(notified, t)

\* The task ends with `outcome`: its permit is dropped and the JoinSet is
\* notified.
Finish(t, outcome) ==
    /\ tasks' = [tasks EXCEPT ![t].state = "finished", ![t].outcome = Some(outcome)]
    /\ permits' = permits + 1
    /\ notified' = Append(notified, t)

\* client.get(&url).send().await and resp.error_for_status(): a transport
\* error, a non-2xx status, or a response whose body is read next.
TaskSend(t) ==
    /\ tasks[t].state = "sending"
    /\ \/ Finish(t, Error(tasks[t].source_name, tasks[t].url, "transport error"))
       \/ Finish(t, Error(tasks[t].source_name, tasks[t].url, "HTTP status error"))
       \/ /\ tasks' = [tasks EXCEPT ![t].state = "reading"]
          /\ UNCHANGED <<permits, notified>>
    /\ UNCHANGED <<requested, max_concurrent, sources, pc, cursor, results, result,
                   cleanVars, entryVars, ogVars>>

\* ok_resp.text().await: the body, or a failure to read it.
TaskRead(t) ==
    /\ tasks[t].state = "reading"
    /\ \/ \E body \in Bodies : Finish(t, Success(tasks[t].source_name, tasks[t].url, body))
       \/ Finish(t, Error(tasks[t].source_name, tasks[t].url, "Failed to read body"))
    /\ UNCHANGED <<requested, max_concurrent, sources, pc, cursor, results, result,
                   cleanVars, entryVars, ogVars>>

\* A slip in the join loop: only successful fetches are pushed.
JoinNextDropsErrors ==
    /\ pc = "join"
    /\ notified # <<>>
    /\ results' = IF Unwrap(tasks[Head(notified)].outcome).kind = "Error" THEN results
                  ELSE Append(results, Unwrap(tasks[Head(notified)].outcome))
    /\ tasks' = [tasks EXCEPT ![Head(notified)].state = "joined"]
    /\ notified' = Tail(notified)
    /\ UNCHANGED <<requested, max_concurrent, sources, pc, cursor, permits, result,
                   cleanVars, entryVars, ogVars>>

\* join_set.join_next().await returns a finished task: its result is pushed.
JoinNext ==
    /\ pc = "join"
    /\ notified # <<>>
    /\ results' = Append(results, Unwrap(tasks[Head(notified)].outcome))
    /\ tasks' = [tasks EXCEPT ![Head(notified)].state = "joined"]
    /\ notified' = Tail(notified)
    /\ UNCHANGED <<requested, max_concurrent, sources, pc, cursor, permits, result,
                   cleanVars, entryVars, ogVars>>

\* join_next() returns None (the JoinSet is empty): fetch_all returns results.
FetchReturn ==
    /\ pc = "join"
    /\ \A t \in 1..Len(tasks) : tasks[t].state = "joined"
    /\ pc' = "parse"
    /\ UNCHANGED <<requested, max_concurrent, sources, cursor, permits, tasks,
                   notified, results, result, cleanVars, entryVars, ogVars>>

\* The orders in which a set can be iterated.
Orders(S) == {o \in [1..Cardinality(S) -> S] : \A i, j \in DOMAIN o : o[i] = o[j] => i = j}

\* parse_sources after fetch_all: parse_results, the groups taken in the order
\* of the hash map, and the ParseResult.
ParseResults ==
    /\ pc = "parse"
    /\ \E order \in Orders(GroupNames(results)) :
          LET parsed == parse_results(results, sources, order)
          IN  result' = Some([articles |-> parsed.articles,
                              source_stats |-> parsed.source_stats,
                              metrics |-> RustMetrics(parsed.articles)])
    /\ pc' = "done"
    /\ UNCHANGED <<requested, max_concurrent, sources, cursor, permits, tasks,
                   notified, results, cleanVars, entryVars, ogVars>>

Next ==
    \/ Spawn
    \/ \E t \in 1..Len(tasks) : TaskSend(t)
    \/ \E t \in 1..Len(tasks) : TaskRead(t)
    \/ JoinNext
    \/ FetchReturn
    \/ ParseResults

Spec == Init /\ [][Next]_vars

\* The fetch phase under the runtime's scheduling: the caller is polled
\* whenever it can go on (a free permit, a finished task to join), and every
\* started request eventually completes.
FairSpec ==
    /\ Init /\ [][Next]_vars
    /\ WF_vars(Spawn)
    /\ WF_vars(\E t \in 1..Len(tasks) : TaskSend(t))
    /\ WF_vars(\E t \in 1..Len(tasks) : TaskRead(t))
    /\ WF_vars(JoinNext)
    /\ WF_vars(FetchReturn)

\* ---------------------------------------------------------------- claims
Stats == Unwrap(result).source_stats
Articles == Unwrap(result).articles

\* Tasks that hold a permit and have their request active.
InFlight == {t \in 1..Len(tasks) : tasks[t].state \in {"sending", "reading"}}

\* A fetch result that failed to fetch or to decode.
Failed(r) == r.kind = "Error" \/ ~parse(Unwrap(r.xml)).ok

RECURSIVE SumCounts(_)
SumCounts(subs) ==
    IF subs = <<>> THEN 0 ELSE Head(subs).article_count + SumCounts(Tail(subs))

\* How many elements of seq bear this source name and url.
CountPair(seq, source_name, url) ==
    Cardinality({k \in 1..Len(seq) : seq[k].source_name = source_name /\ seq[k].url = url})

\* C1: every requested source name is a key of source_stats, and a name all
\* of whose requests have no url, or only blank ones, has the stat "warning",
\* 0 articles, "No fetch attempts", no sub_feeds.
C1_EveryRequestedSourceHasStat ==
    pc = "done" =>
        \A i \in 1..Len(requested) :
            /\ requested[i].name \in DOMAIN Stats
            /\ (\A j \in 1..Len(requested) :
                    requested[j].name = requested[i].name
                        => FilterBlank(requested[j].urls) = <<>>)
                => Stats[requested[i].name] = NoFetchAttempts(requested[i].name)

\* C2: at most max(max_concurrency, 1) tasks hold a permit with a request
\* active, whatever the sources the tasks belong to.
C2_InFlightBounded == Cardinality(InFlight) <= Max(max_concurrent, 1)

\* With a limit of 1, the request of one source is active and the caller
\* waits with a url of another source still to submit.
C2_Witness ==
    /\ max_concurrent = 1
    /\ Cardinality(InFlight) = 1
    /\ pc = "submit"
    /\ permits = 0
    /\ \E t \in InFlight : tasks[t].source_name # Pairs(sources)[cursor].source_name

C4_StatusWarningIffFailure ==
    pc = "done" =>
        \A n \in DOMAIN Stats :
            Stats[n].status =
                IF \E k \in 1..Len(results) : results[k].source_name = n /\ Failed(results[k])
                THEN "warning" ELSE "success"

\* One source whose only body does not decode, beside one whose only fetch
\* succeeds.
C4_Witness ==
    /\ pc = "done"
    /\ Len(results) = 2
    /\ \E k \in 1..2 : /\ results[k].kind = "Success"
                        /\ Failed(results[k])
                        /\ Stats[results[k].source_name].status = "warning"
    /\ \E k \in 1..2 : /\ ~Failed(results[k])
                        /\ Stats[results[k].source_name].status = "success"

\* C5: a source with fetch outcomes has one sub-feed stat per outcome, with the
\* outcome's url; a failed or undecodable sub-feed counts 0 articles, a decoded
\* one the articles of its entries; the source's article_count is the sum of
\* its sub-feeds' counts and the number of its articles in the result.
C5_SubFeedsAndCounts ==
    pc = "done" =>
        \A n \in GroupNames(results) :
            LET g == Group(results, n)
                subs == Unwrap(Stats[n].sub_feeds)
            IN  /\ Stats[n].sub_feeds # None
                /\ Len(subs) = Len(g)
                /\ \A k \in 1..Len(g) :
                        /\ subs[k].url = g[k].url
                        /\ subs[k].article_count =
                              IF Failed(g[k]) THEN 0
                              ELSE Len(extract_articles(parse(Unwrap(g[k].xml)).entries, n))
                /\ Stats[n].article_count = SumCounts(subs)
                /\ Stats[n].article_count
                     = Cardinality({a \in 1..Len(Articles) : Articles[a].source = n})

\* A source with a 3-entry feed and a sub-feed that failed on its status:
\* "warning", 2 sub_feeds, 3 articles.
C5_Witness ==
    /\ pc = "done"
    /\ Len(results) = 2
    /\ results[1] = Success("A", <<"u">>, Feed3)
    /\ results[2] = Error("A", <<"v">>, "HTTP status error")
    /\ Stats["A"].status = "warning"
    /\ Len(Unwrap(Stats["A"].sub_feeds)) = 2
    /\ Stats["A"].article_count = 3

\* C6: metrics.articles_parsed is the number of articles of the result.
C6_ArticlesParsed ==
    pc = "done" => Unwrap(result).metrics.articles_parsed = Len(Articles)

\* Two requests of the same name, one fetched feed and one failure.
C6_Witness ==
    /\ pc = "done"
    /\ Len(requested) = 2
    /\ requested[1].name = requested[2].name
    /\ Len(results) = 2
    /\ \E k \in 1..2 : results[k].kind = "Error"
    /\ Unwrap(result).metrics.articles_parsed = 3
    /\ Len(Articles) = 3

\* C7 as stated: the permit is acquired inside the task, so the caller's
\* loop can submit the next url whenever one is left, whatever the number of
\* free permits.
C7_CallerNeverWaits == pc = "submit" => ENABLED Spawn

\* C7 amended: the permit is acquired by the caller's loop before the task is
\* spawned. Every spawned task that has not finished owns a permit, so the
\* tasks spawned and not finished number max(max_concurrency, 1) less the
\* free permits; with no free permit the loop cannot submit; every url has
\* become a task once the loop has ended.
C7_CallerAcquires ==
    /\ permits >= 0
    /\ Cardinality(InFlight) = Max(max_concurrent, 1) - permits
    /\ Len(tasks) = cursor - 1
    /\ (pc = "submit" /\ permits = 0 => ~ENABLED Spawn)
    /\ (pc # "submit" => Len(tasks) = Len(Pairs(sources)))

\* The caller is held at a url while the only permit is owned by a task.
C7_Witness ==
    /\ pc = "submit"
    /\ cursor <= Len(Pairs(sources))
    /\ permits = 0
    /\ Cardinality(InFlight) = 1
    /\ ~ENABLED Spawn

\* The fetch_all actions: the submit loop, the tasks, the join loop.
FetchStep ==
    \/ Spawn
    \/ \E t \in 1..Len(tasks) : TaskSend(t) \/ TaskRead(t)
    \/ JoinNext
    \/ FetchReturn

\* One step gives a permit back exactly when one task ends, whatever its
\* outcome, and a task that has ended never runs again.
ReleaseOnce ==
    /\ \A t \in 1..Len(tasks) :
           /\ (t \in InFlight /\ tasks'[t].state = "finished" => permits' = permits + 1)
           /\ (t \notin InFlight => tasks'[t].state \in {"finished", "joined"})
    /\ (permits' > permits =>
           /\ permits' = permits + 1
           /\ Cardinality({t \in InFlight : tasks'[t].state = "finished"}) = 1)

\* C12: every task releases its permit exactly once, when it ends, on each
\* of its exits (a body, a transport error, a non-2xx status, a body-read
\* error); the permits held and the permits free always add up to
\* max(max_concurrency, 1); all permits are free once fetch_all has returned;
\* acquisition only waits: while fetch_all runs some step of it can be taken,
\* and a caller held for a permit is held by a task that can still end.
C12_PermitsConserved ==
    /\ [](/\ permits \in 0..Max(max_concurrent, 1)
          /\ Cardinality(InFlight) + permits = Max(max_concurrent, 1)
          /\ (pc \in {"parse", "done"} => permits = Max(max_concurrent, 1))
          /\ (pc \in {"submit", "join"} => ENABLED FetchStep)
          /\ (pc = "submit" /\ permits = 0 =>
                 \E t \in InFlight : ENABLED TaskSend(t) \/ ENABLED TaskRead(t)))
    /\ [][ReleaseOnce]_vars

\* fetch_all has returned after two tasks shared the only permit, one ending
\* with a body and one with an error: the permit is free again.
C12_Witness ==
    /\ pc = "parse"
    /\ Max(max_concurrent, 1) = 1
    /\ Len(results) = 2
    /\ \E i, j \in 1..2 : results[i].kind = "Success" /\ results[j].kind = "Error"
    /\ permits = 1

\* ------------------------------------------------ parse_results, on its own
\* The fetch results parse_results may be given: for each source name, a body
\* that decodes, one that does not, and the failures of a fetch.
FetchResults ==
    {Success(n, <<"u">>, body) : n \in SourceNames, body \in Bodies}
    \cup {Error(n, <<"u">>, msg) :
             n \in SourceNames, msg \in {"HTTP status error", "Failed to read body"}}

\* The original sources it may be given: some of the names, in some order.
OriginalSources ==
    UNION {{[i \in 1..Len(o) |-> SourceRequest(o[i], << <<"u">> >>)] : o \in Orders(S)} :
              S \in SUBSET SourceNames}

\* parse_results is entered with any fetch results, at most MaxUrls of them,
\* and any original sources: a source may have no result at all.
ParseInit ==
    /\ sources \in OriginalSources
    /\ requested = sources
    /\ results \in UNION {[1..k -> FetchResults] : k \in 0..MaxUrls}
    /\ max_concurrent = 1 /\ permits = 1 /\ cursor = 1
    /\ tasks = <<>> /\ notified = <<>> /\ result = None
    /\ pc = "parse"
    /\ CleanIdle /\ EntryIdle /\ OgIdle

ParseNext == ParseResults

SpecParse == ParseInit /\ [][ParseNext]_vars

\* C13: in every source stat of a result of parse_results, the injected
\* "No fetch attempts" stats included, the status is "warning" exactly when
\* an error_message is present and "success" exactly when it is absent; in
\* every sub-feed stat the status is "error" exactly when an error_message is
\* present.
C13_StatusMatchesMessage ==
    pc = "done" =>
        \A n \in DOMAIN Stats :
            /\ (Stats[n].status = "warning" <=> Stats[n].error_message # None)
            /\ (Stats[n].status = "success" <=> Stats[n].error_message = None)
            /\ Stats[n].sub_feeds # None =>
                   \A k \in 1..Len(Unwrap(Stats[n].sub_feeds)) :
                       Unwrap(Stats[n].sub_feeds)[k].status = "error"
                           <=> Unwrap(Stats[n].sub_feeds)[k].error_message # None

\* One source without any fetch result, which gets the injected stat, beside
\* one with a fetched feed and a failed fetch: a "warning" with a message,
\* over a sub-feed "success" without a message and a sub-feed "error" with
\* one.
C13_Witness ==
    /\ pc = "done"
    /\ \E n \in DOMAIN Stats :
           /\ n \notin GroupNames(results)
           /\ Stats[n].status = "warning"
           /\ Stats[n].error_message = Some("No fetch attempts")
    /\ \E n \in GroupNames(results) :
           /\ Stats[n].status = "warning"
           /\ Stats[n].error_message # None
           /\ \E j, k \in 1..Len(Unwrap(Stats[n].sub_feeds)) :
                  /\ Unwrap(Stats[n].sub_feeds)[j].status = "success"
                  /\ Unwrap(Stats[n].sub_feeds)[j].error_message = None
                  /\ Unwrap(Stats[n].sub_feeds)[k].status = "error"
                  /\ Unwrap(Stats[n].sub_feeds)[k].error_message # None

\* --------------------------------------------- clean_html, once and again
CleanInit ==
    /\ input \in Texts(MaxLen)
    /\ once = <<>> /\ twice = <<>> /\ cpc = "start"
    /\ PipeIdle /\ EntryIdle /\ OgIdle

\* let output = clean_html(input)
CleanOnce ==
    /\ cpc = "start"
    /\ once' = clean_html(input)
    /\ cpc' = "cleaned"
    /\ UNCHANGED <<input, twice, pipeVars, entryVars, ogVars>>

\* clean_html(output)
CleanAgain ==
    /\ cpc = "cleaned"
    /\ twice' = clean_html(once)
    /\ cpc' = "recleaned"
    /\ UNCHANGED <<input, once, pipeVars, entryVars, ogVars>>

CleanNext == CleanOnce \/ CleanAgain

SpecClean == CleanInit /\ [][CleanNext]_vars

\* C9 as stated: clean("") = "" and clean(clean(x)) = clean(x) for every
\* string x.
C9_Idempotent ==
    /\ (cpc \in {"cleaned", "recleaned"} /\ input = <<>> => once = <<>>)
    /\ (cpc = "recleaned" => twice = once)

\* C9 amended: clean("") = "", and clean(clean(x)) = clean(x) for every x
\* whose cleaned text holds no character reference that a further decode
\* would replace (a doubly encoded entity such as "&amp;lt;" loses one level
\* of encoding per pass).
C9_IdempotentOnDecoded ==
    /\ (cpc \in {"cleaned", "recleaned"} /\ input = <<>> => once = <<>>)
    /\ (cpc = "recleaned" /\ ~HasEntity(once) => twice = once)

\* A text with an entity and a tag has been cleaned twice, the first pass
\* changed it and left no character reference behind.
C9_Witness ==
    /\ cpc = "recleaned"
    /\ input = <<"&", "amp", ";", "<", "x">>
    /\ once = <<"&", "<", "x">>
    /\ ~HasEntity(once)
    /\ twice = once

\* ------------------------------------------------- extract_articles
\* Entries of the feeds: a title that is absent, plain, or markup only; no
\* link, a link without a title, a link with one; a summary that is absent,
\* markup only (such as a lone image tag) or a text; a content that is
\* absent, has no body, or has one.
EntryTitles == {None, Some(<<"x">>), Some(<<"<", "x", ">">>)}
EntryLinks == {<<>>, <<Link(<<"h">>, None)>>, <<Link(<<"h">>, Some(<<"t">>))>>}
EntrySummaries == {None, Some(<<"<", "x", ">">>), Some(<<"s">>)}
EntryContents == {None, Some([body |-> None]), Some([body |-> Some(<<"c">>)])}

Entries ==
    {Entry(t, l, s, c) : t \in EntryTitles, l \in EntryLinks,
                         s \in EntrySummaries, c \in EntryContents}

EntryInit ==
    /\ entries \in UNION {[1..k -> Entries] : k \in 0..MaxEntries}
    /\ parsed_articles = <<>> /\ epc = "start"
    /\ PipeIdle /\ CleanIdle /\ OgIdle

\* let parsed_articles = extract_articles(feed.entries, source_name)
ExtractArticles ==
    /\ epc = "start"
    /\ parsed_articles' = extract_articles(entries, "A")
    /\ epc' = "done"
    /\ UNCHANGED <<entries, pipeVars, cleanVars, ogVars>>

EntryNext == ExtractArticles

SpecEntries == EntryInit /\ [][EntryNext]_vars

\* An entry with a usable title (non-empty after cleaning) and a link.
Usable(entry) ==
    /\ entry.title # None
    /\ clean_html(Unwrap(entry.title)) # <<>>
    /\ entry.links # <<>>

\* C8: an entry becomes an article if and only if it has a usable title
\* (non-empty after cleaning) and at least one link: the articles are, in
\* order, those of the usable entries, and every article has a non-empty
\* title and a link.
C8_ArticleIffUsable ==
    epc = "done" =>
        /\ Len(parsed_articles) = Cardinality({i \in 1..Len(entries) : Usable(entries[i])})
        /\ \A k \in 1..Len(parsed_articles) : parsed_articles[k].title # <<>>

\* The entries extract_articles keeps, in order.
RECURSIVE KeptEntries(_)
KeptEntries(es) ==
    IF es = <<>> THEN <<>>
    ELSE (IF Head(es).title # None /\ Head(es).links # <<>> THEN <<Head(es)>> ELSE <<>>)
         \o KeptEntries(Tail(es))

\* The three values a description is picked from, in order of preference:
\* summary text, content body, first link's title (<<>> for an absent one).
DescriptionValues(entry) ==
    << IF entry.summary = None THEN <<>> ELSE Unwrap(entry.summary),
       IF entry.content = None \/ Unwrap(entry.content).body = None THEN <<>>
       ELSE Unwrap(Unwrap(entry.content).body),
       IF entry.links = <<>> \/ entry.links[1].title = None THEN <<>>
       ELSE Unwrap(entry.links[1].title) >>

\* The first of the values that has text left once cleaned, <<>> when none
\* has: a value of markup or white space only counts as empty.
FirstNonEmpty(values) ==
    IF \A i \in 1..Len(values) : clean_html(values[i]) = <<>> THEN <<>>
    ELSE values[CHOOSE i \in 1..Len(values) :
                    /\ clean_html(values[i]) # <<>>
                    /\ \A j \in 1..(i - 1) : clean_html(values[j]) = <<>>]

\* C11: the description of every article is the cleaned form of the first
\* non-empty value among the entry's summary text, content body and first
\* link's title, and so is empty only when all three are empty or absent;
\* an entry whose summary is present but empty and whose content body is not
\* gets the content body.
C11_DescriptionFirstNonEmpty ==
    epc = "done" =>
        \A k \in 1..Len(parsed_articles) :
            LET values == DescriptionValues(KeptEntries(entries)[k])
            IN  /\ parsed_articles[k].description = clean_html(FirstNonEmpty(values))
                /\ (parsed_articles[k].description = <<>>
                        => \A i \in 1..3 : clean_html(values[i]) = <<>>)

\* ------------------------------------------- extract_og_image_from_html
\* Attribute values of the documents: absent, blank, a url, a padded url.
AttrValues == {None, Some(<<" ">>), Some(<<"A">>), Some(<<" ", "B", " ">>)}

Elements ==
    {MetaEl(p, n, c) : p \in {None, Some("og:image")},
                       n \in {None, Some("twitter:image")},
                       c \in AttrValues}
    \cup {LinkEl(r, h) : r \in {None, Some("image_src")}, h \in AttrValues}

OgInit ==
    /\ document \in UNION {[1..k -> Elements] : k \in 0..MaxElems}
    /\ extraction = None /\ opc = "start"
    /\ PipeIdle /\ CleanIdle /\ EntryIdle

\* lib.rs extract_og_image_html
ExtractOgImage ==
    /\ opc = "start"
    /\ extraction' = Some(extract_og_image_from_html(document))
    /\ opc' = "done"
    /\ UNCHANGED <<document, pipeVars, cleanVars, entryVars>>

OgNext == ExtractOgImage

SpecOg == OgInit /\ [][OgNext]_vars

\* The url an element contributes at priority p, as an Option.
Contribution(el, p) ==
    CASE p = 1 -> IF Matches(el, OgSelector) /\ el.content # None
                     /\ trim(Unwrap(el.content)) # <<>>
                  THEN el.content ELSE None
      [] p = 2 -> IF Matches(el, TwitterSelector) /\ el.content # None
                     /\ trim(Unwrap(el.content)) # <<>>
                  THEN el.content ELSE None
      [] p = 3 -> IF Matches(el, ImageSrcSelector) /\ el.href # None
                     /\ trim(Unwrap(el.href)) # <<>>
                  THEN Some(trim(Unwrap(el.href))) ELSE None

SourceOfPriority == <<"og:image", "twitter:image", "link:image_src">>

\* C10: the candidates are ordered by (priority, document order): the
\* og:image values at priority 1, then the twitter:image values at 2, then
\* the image_src link values at 3, each tagged with its source name; the
\* k-th candidate of a priority is the value of the k-th element of the
\* document that contributes at that priority; image_url is the first
\* candidate and is absent exactly when there is no candidate.
C10_RankedCandidates ==
    opc = "done" =>
        LET c == Unwrap(extraction).candidates
            At(p) == {k \in 1..Len(c) : c[k].priority = p}
            From(p) == {i \in 1..Len(document) : Contribution(document[i], p) # None}
        IN  /\ \A k \in 1..Len(c) :
                    /\ c[k].priority \in 1..3
                    /\ c[k].source = SourceOfPriority[c[k].priority]
            /\ \A j, k \in 1..Len(c) : j < k => c[j].priority <= c[k].priority
            /\ \A p \in 1..3 :
                    /\ Cardinality(At(p)) = Cardinality(From(p))
                    /\ \A k \in At(p) : \E i \in From(p) :
                            /\ Cardinality({j \in At(p) : j < k})
                                 = Cardinality({h \in From(p) : h < i})
                            /\ Some(c[k].url) = Contribution(document[i], p)
            /\ Unwrap(extraction).image_url
                 = (IF c = <<>> THEN None ELSE Some(c[1].url))
            /\ (Unwrap(extraction).image_url = None <=> c = <<>>)

\* A document whose image_src link comes first, then a twitter:image, then an
\* og:image: the extraction lists them og, twitter, link and reports A.
C10_Witness ==
    /\ opc = "done"
    /\ document = <<LinkEl(Some("image_src"), Some(<<" ", "B", " ">>)),
                    MetaEl(None, Some("twitter:image"), Some(<<" ", "B", " ">>)),
                    MetaEl(Some("og:image"), None, Some(<<"A">>))>>
    /\ Unwrap(extraction).image_url = Some(<<"A">>)
    /\ Unwrap(extraction).candidates
         = << [url |-> <<"A">>, source |-> "og:image", priority |-> 1],
              [url |-> <<" ", "B", " ">>, source |-> "twitter:image", priority |-> 2],
              [url |-> <<"B">>, source |-> "link:image_src", priority |-> 3] >>

====
